---- MODULE Spec2Model ----
(***************************************************************************)
(* The resilient LLM client layer of the note-taking application:          *)
(*   lib/ai/utils.ts   estimateTokens, validateTokenLimit, truncateText,   *)
(*                     withRetry, sleep, withTimeout                       *)
(*   lib/ai/errors.ts  GeminiErrorType, GeminiError, parseGeminiError,     *)
(*                     isNonRetryableError                                 *)
(*   lib/ai/gemini-client.ts  GeminiClient.generateText, callGeminiAPI     *)
(*                                                                         *)
(* Text is a sequence of character classes: "K" a Hangul syllable          *)
(* ([가-힣]), "S" the space character, "O" any other character.  An error  *)
(* value carries the fields parseGeminiError reads (message, status, name, *)
(* code); its message is a label together with the set of the keywords     *)
(* ("API key", "quota", ...) that the message text contains.               *)
(*                                                                         *)
(* Two specifications share the withRetry machinery:                       *)
(*   SpecRetry  withRetry called directly on a scripted operation          *)
(*   Spec       GeminiClient.generateText against a nondeterministic       *)
(*              provider and the withTimeout timer                         *)
(***************************************************************************)
EXTENDS Integers, Sequences, FiniteSets, TLC

(***************************************************************************)
(* Bounds                                                                  *)
(***************************************************************************)
MaxLen == 4           \* longest prompt, in characters
MaxCfgTokens == 4     \* largest config.maxTokens
MaxReqTokens == 2     \* largest request.maxTokens
MaxRetriesArg == 4    \* largest maxRetries argument given to withRetry
MaxReplyLen == 4      \* longest free-form model reply, in characters
MaxElems == 3         \* most elements (lines) of a well-formed model reply
MaxTagsArg == 3       \* largest maxTags argument given to generateTags
MaxPosts == 2         \* most summary POST requests handled in one run
MaxTagCalls == 2      \* most generateTagsForNote calls in one run
MaxServiceTags == 2   \* most tags the tag service returns

(***************************************************************************)
(* Program constants                                                       *)
(***************************************************************************)
DefaultMaxRetries == 3
DefaultBackoffMs == 1000
DefaultTimeoutMs == 10000
ReserveCap == 2000

Chars == {"K", "O", "S"}
Texts(n) == UNION {[1..k -> Chars] : k \in 0..n}

Max(a, b) == IF a >= b THEN a ELSE b
Min(a, b) == IF a <= b THEN a ELSE b
CeilDiv(a, b) == (a + b - 1) \div b

(***************************************************************************)
(* utils.ts: token estimate, budget check, truncation                      *)
(***************************************************************************)
Count(text, c) == Cardinality({i \in 1..Len(text) : text[i] = c})

\* Math.ceil(koreanChars * 1.5 + otherChars * 0.25), in quarters
estimateTokens(text) ==
    LET koreanChars == Count(text, "K")
        otherChars == Len(text) - koreanChars
    IN CeilDiv(6 * koreanChars + otherChars, 4)

\* validateTokenLimit without the reply reserve
validateTokenLimit_NoReserve(inputTokens, maxTokens) == inputTokens <= maxTokens

validateTokenLimit(inputTokens, maxTokens) ==
    LET dynamicReserve == (maxTokens * 3) \div 10
        reservedTokens == Min(ReserveCap, dynamicReserve)
        allowedInput == Max(1, maxTokens - reservedTokens)
    IN inputTokens <= allowedInput

\* text.lastIndexOf(' '), 1-based; 0 when there is no space
lastIndexOfSpace(text) ==
    LET idx == {i \in 1..Len(text) : text[i] = "S"}
    IN IF idx = {} THEN 0 ELSE CHOOSE i \in idx : \A j \in idx : j <= i

\* Math.floor(text.length * (maxTokens / estimatedTokens) * 0.9); the exact
\* quotient equals the double-precision result for every length below 15
truncateText(text, maxTokens) ==
    LET estimatedTokens == estimateTokens(text)
        targetLength == (Len(text) * maxTokens * 9) \div (estimatedTokens * 10)
        truncated == SubSeq(text, 1, targetLength)
        lastSpace == lastIndexOfSpace(truncated)
    IN IF estimatedTokens <= maxTokens THEN text
       ELSE IF lastSpace - 1 > 0 THEN SubSeq(truncated, 1, lastSpace - 1)
       ELSE truncated

(***************************************************************************)
(* errors.ts: error values and their classification                        *)
(***************************************************************************)
Keywords == {"API key", "quota", "content", "filter", "token", "limit", "model"}

GeminiErrorType ==
    {"API_KEY_INVALID", "QUOTA_EXCEEDED", "TIMEOUT", "CONTENT_FILTERED",
     "NETWORK_ERROR", "TOKEN_LIMIT_EXCEEDED", "MODEL_NOT_FOUND", "UNKNOWN"}

\* A thrown value.  cls is its class ("Error", "GeminiError", or "undefined"
\* for the value of an unassigned variable); type and statusCode are the
\* GeminiError fields; status 0, code "" stand for an absent field; at is the
\* invocation of the operation that raised the underlying error.
Err(cls, type, message, words, status, name, code, statusCode, at) ==
    [cls |-> cls, type |-> type, message |-> message, words |-> words,
     status |-> status, name |-> name, code |-> code,
     statusCode |-> statusCode, at |-> at]

RawError(message, words, status, name, code) ==
    Err("Error", "", message, words, status, name, code, 0, 0)

Undefined == Err("undefined", "", "", {}, 0, "", "", 0, 0)

\* new GeminiError(type, message, originalError, statusCode)
GeminiError(type, message, words, statusCode, at) ==
    Err("GeminiError", type, message, words, 0, "GeminiError", "", statusCode, at)

includes(error, word) == word \in error.words

\* parseGeminiError whose fallback hands back the raw error
parseGeminiError_RawFallback(error) ==
    IF \/ includes(error, "API key") \/ error.status \in {401, 429, 404}
       \/ includes(error, "quota")
       \/ error.name = "TimeoutError"
       \/ error.code \in {"TIMEOUT", "ENOTFOUND", "ECONNREFUSED"}
       \/ includes(error, "content") /\ includes(error, "filter")
       \/ includes(error, "token") /\ includes(error, "limit")
       \/ includes(error, "model")
    THEN GeminiError("API_KEY_INVALID", "Invalid API key", {"API key"},
                     error.status, error.at)
    ELSE error

\* parseGeminiError with the MODEL_NOT_FOUND rule ahead of TOKEN_LIMIT_EXCEEDED
parseGeminiError_ModelFirst(error) ==
    IF includes(error, "API key") \/ error.status = 401
    THEN GeminiError("API_KEY_INVALID", "Invalid API key", {"API key"},
                     error.status, error.at)
    ELSE IF error.status = 429 \/ includes(error, "quota")
    THEN GeminiError("QUOTA_EXCEEDED", "API quota exceeded", {"quota"},
                     error.status, error.at)
    ELSE IF error.name = "TimeoutError" \/ error.code = "TIMEOUT"
    THEN GeminiError("TIMEOUT", "Request timeout", {}, 0, error.at)
    ELSE IF includes(error, "content") /\ includes(error, "filter")
    THEN GeminiError("CONTENT_FILTERED", "Content filtered", {"filter"},
                     error.status, error.at)
    ELSE IF error.status = 404 \/ includes(error, "model")
    THEN GeminiError("MODEL_NOT_FOUND", "Model not found", {},
                     error.status, error.at)
    ELSE IF includes(error, "token") /\ includes(error, "limit")
    THEN GeminiError("TOKEN_LIMIT_EXCEEDED", "Token limit exceeded", {"limit"},
                     error.status, error.at)
    ELSE IF error.code = "ENOTFOUND" \/ error.code = "ECONNREFUSED"
    THEN GeminiError("NETWORK_ERROR", "Network error", {}, 0, error.at)
    ELSE GeminiError("UNKNOWN",
                     IF error.message = "" THEN "Unknown error" ELSE error.message,
                     IF error.message = "" THEN {} ELSE error.words,
                     error.status, error.at)

\* parseGeminiError: eight ordered rules, first match wins
parseGeminiError(error) ==
    IF includes(error, "API key") \/ error.status = 401
    THEN GeminiError("API_KEY_INVALID", "Invalid API key", {"API key"},
                     error.status, error.at)
    ELSE IF error.status = 429 \/ includes(error, "quota")
    THEN GeminiError("QUOTA_EXCEEDED", "API quota exceeded", {"quota"},
                     error.status, error.at)
    ELSE IF error.name = "TimeoutError" \/ error.code = "TIMEOUT"
    THEN GeminiError("TIMEOUT", "Request timeout", {}, 0, error.at)
    ELSE IF includes(error, "content") /\ includes(error, "filter")
    THEN GeminiError("CONTENT_FILTERED", "Content filtered", {"filter"},
                     error.status, error.at)
    ELSE IF includes(error, "token") /\ includes(error, "limit")
    THEN GeminiError("TOKEN_LIMIT_EXCEEDED", "Token limit exceeded", {"limit"},
                     error.status, error.at)
    ELSE IF error.status = 404 \/ includes(error, "model")
    THEN GeminiError("MODEL_NOT_FOUND", "Model not found", {},
                     error.status, error.at)
    ELSE IF error.code = "ENOTFOUND" \/ error.code = "ECONNREFUSED"
    THEN GeminiError("NETWORK_ERROR", "Network error", {}, 0, error.at)
    ELSE GeminiError("UNKNOWN",
                     IF error.message = "" THEN "Unknown error" ELSE error.message,
                     IF error.message = "" THEN {} ELSE error.words,
                     error.status, error.at)

\* GeminiError.isRetryable
isRetryable(geminiError) ==
    geminiError.type \in {"NETWORK_ERROR", "TIMEOUT", "QUOTA_EXCEEDED"}

\* isNonRetryableError that takes every error for retryable
isNonRetryableError_Never(error) == FALSE

isNonRetryableError(error) ==
    LET geminiError == IF error.cls = "GeminiError" THEN error
                       ELSE parseGeminiError(error)
    IN ~isRetryable(geminiError)

\* reject(new Error(`Operation timed out after ${timeoutMs}ms`)) in withTimeout
OperationTimedOut == RawError("Operation timed out", {}, 0, "Error", "")

\* throw new Error('Empty response from Gemini API') in callGeminiAPI
EmptyResponseError == RawError("Empty response from Gemini API", {}, 0, "Error", "")

\* new GeminiError('TOKEN_LIMIT_EXCEEDED', `Input tokens (${inputTokens}) exceed limit`, null)
InputTokensExceedError ==
    GeminiError("TOKEN_LIMIT_EXCEEDED", "Input tokens exceed limit",
                {"token", "limit"}, 0, 0)

\* Errors the provider (or an operation handed to withRetry) rejects with
RetryableErrors ==
    { RawError("Resource exhausted", {}, 429, "Error", ""),
      RawError("Request timed out", {}, 0, "TimeoutError", ""),
      RawError("getaddrinfo ENOTFOUND", {}, 0, "Error", "ENOTFOUND") }

TerminalErrors ==
    { RawError("API key not valid", {"API key"}, 400, "Error", ""),
      RawError("content blocked by safety filter", {"content", "filter"}, 400, "Error", ""),
      RawError("model token limit reached", {"token", "limit", "model"}, 400, "Error", ""),
      RawError("Not found", {}, 404, "Error", ""),
      RawError("Internal error", {}, 500, "Error", "") }

ProviderErrors == RetryableErrors \cup TerminalErrors

(***************************************************************************)
(* State                                                                   *)
(***************************************************************************)
VARIABLES
    mode,           \* "idle", "withRetry" (direct call) or "generateText"
    config,         \* GeminiClient.config
    request,        \* the caller's GenerateTextRequest
    sent,           \* the request after the pre-flight stage (prompt maybe truncated)
    inputTokens,    \* generateText's local inputTokens
    pc,             \* "idle", "inflight", "sleeping", "returned", "thrown"
    attempt,        \* withRetry's loop variable
    maxRetries,     \* withRetry's argument
    backoffMs,      \* withRetry's argument
    lastError,      \* withRetry's lastError
    sleeps,         \* durations of the sleeps withRetry has started
    opCalls,        \* invocations of the operation given to withRetry
    plan,           \* direct call: the operation's outcome at each invocation
    providerCalls,  \* arguments of each client.models.generateContent call
    pending,        \* attempts whose provider call has not settled yet
    usageLog,       \* entries passed to logAPIUsage
    outcome,        \* what the call gave its caller
    client,         \* GeminiClient.client: the apiKey the provider handle was built with
    health,         \* progress and result of healthCheck / healthCheckDetailed
    fnArg,          \* the argument a pure function is applied to
    fnResult,       \* the value the pure function returned
    tagsRequest,    \* the caller's GenerateTagsRequest
    llmCalls,       \* requests generateTags passed to geminiClient.generateText
    summaries,      \* rows of table summaries
    posts,          \* summary POST requests being handled
    tagsTable,      \* rows of table tags
    noteTags,       \* rows of table note_tags
    tagsAction      \* progress and result of generateTagsForNote

vars == <<mode, config, request, sent, inputTokens, pc, attempt, maxRetries,
          backoffMs, lastError, sleeps, opCalls, plan, providerCalls, pending,
          usageLog, outcome, client, health, fnArg, fnResult, tagsRequest,
          llmCalls, summaries, posts, tagsTable, noteTags, tagsAction>>

\* The database tables and the handlers that write them
dbVars == <<summaries, posts, tagsTable, noteTags, tagsAction>>

\* State outside the call path of generateText
otherVars == <<client, fnArg, fnResult, tagsRequest, llmCalls, dbVars>>

retryVars == <<attempt, maxRetries, backoffMs, lastError, sleeps, opCalls>>

DefaultModel == "gemini-2.5-flash"
RequestModels == {""}
ReplyTexts == {<<>>, <<"K">>, <<"O">>}
FinishReasons == {"", "MAX_TOKENS"}
BackoffArgs == {DefaultBackoffMs, 250}

NoRequest == [prompt |-> <<>>, model |-> "", maxTokens |-> 0]
NoOutcome == [kind |-> "none", val |-> <<>>, err |-> Undefined]
Returned(val) == [kind |-> "ok", val |-> val, err |-> Undefined]
Threw(error) == [kind |-> "err", val |-> <<>>, err |-> error]

\* An outcome of the operation handed to withRetry
OpOk(val) == [ok |-> TRUE, val |-> val, err |-> Undefined]
OpFail(error) == [ok |-> FALSE, val |-> <<>>, err |-> error]
OpOutcomes == {OpOk(<<"K">>)} \cup {OpFail(e) : e \in ProviderErrors}

Configs ==
    {[apiKey |-> "key-1", model |-> DefaultModel, maxTokens |-> m,
      timeout |-> DefaultTimeoutMs] : m \in 1..MaxCfgTokens}

NoHealth == [phase |-> "none", threw |-> FALSE, success |-> FALSE, error |-> "",
             value |-> FALSE]
NoTagsRequest == [content |-> <<>>, maxTags |-> 0, model |-> "", maxTokens |-> 0]

PostIds == 1..MaxPosts
NoSummary == [id |-> 0, noteId |-> "", model |-> "", content |-> ""]
NoResponse == [status |-> 0, summary |-> NoSummary]
NoPost == [pc |-> "none", noteId |-> "", regenerate |-> FALSE,
           result |-> [text |-> "", model |-> ""], existing |-> NoSummary,
           response |-> NoResponse]
NoPosts == [p \in PostIds |-> NoPost]

NoActionResult == [success |-> FALSE, error |-> "", tags |-> <<>>]
NoTagsAction == [pc |-> "idle", calls |-> 0, noteId |-> "", validated |-> FALSE,
                 linkedBefore |-> {}, result |-> <<>>, i |-> 0,
                 createdTags |-> <<>>, response |-> NoActionResult]

TypeOK ==
    /\ mode \in {"idle", "withRetry", "generateText"}
    /\ pc \in {"idle", "inflight", "sleeping", "returned", "thrown"}
    /\ config \in Configs
    /\ attempt \in Nat /\ maxRetries \in Nat /\ opCalls \in Nat
    /\ pending \subseteq 1..DefaultMaxRetries
    /\ outcome.kind \in {"none", "ok", "err"}

\* Every entry point before any call
InitCalls ==
    /\ request = NoRequest
    /\ sent = NoRequest
    /\ inputTokens = 0
    /\ pc = "idle"
    /\ attempt = 0
    /\ maxRetries = 0
    /\ backoffMs = 0
    /\ lastError = Undefined
    /\ sleeps = <<>>
    /\ opCalls = 0
    /\ plan = <<>>
    /\ providerCalls = <<>>
    /\ pending = {}
    /\ usageLog = <<>>
    /\ outcome = NoOutcome
    /\ health = NoHealth
    /\ fnResult = <<>>
    /\ llmCalls = <<>>
    /\ posts = NoPosts
    /\ tagsAction = NoTagsAction

\* The tables before any row is written
InitStore ==
    /\ summaries = {}
    /\ tagsTable = {}
    /\ noteTags = {}

\* A constructed client, no call made yet
InitClient ==
    /\ config \in Configs
    /\ client = config.apiKey
    /\ InitCalls

Init ==
    /\ InitClient
    /\ InitStore
    /\ mode = "idle"
    /\ fnArg = <<>>
    /\ tagsRequest = NoTagsRequest

(***************************************************************************)
(* gemini-client.ts: the stages of generateText                            *)
(***************************************************************************)
\* request.maxTokens || this.config.maxTokens
effectiveMaxOf(req, cfg) == IF req.maxTokens # 0 THEN req.maxTokens ELSE cfg.maxTokens

\* request.model || this.config.model
modelOf(req, cfg) == IF req.model # "" THEN req.model ELSE cfg.model

\* The pre-flight stage without the second budget check
PreFlight_NoRecheck(req, cfg) ==
    LET tokens == estimateTokens(req.prompt)
        effectiveMax == effectiveMaxOf(req, cfg)
        truncated == truncateText(req.prompt, effectiveMax)
    IN IF validateTokenLimit(tokens, effectiveMax)
       THEN [ok |-> TRUE, req |-> req]
       ELSE [ok |-> TRUE, req |-> [req EXCEPT !.prompt = truncated]]

\* The pre-flight stage of generateText: ok = FALSE when it throws
\* TOKEN_LIMIT_EXCEEDED, else req is the request handed to callGeminiAPI
PreFlight(req, cfg) ==
    LET tokens == estimateTokens(req.prompt)
        effectiveMax == effectiveMaxOf(req, cfg)
        truncated == truncateText(req.prompt, effectiveMax)
        truncatedTokens == estimateTokens(truncated)
    IN IF validateTokenLimit(tokens, effectiveMax)
       THEN [ok |-> TRUE, req |-> req]
       ELSE IF ~validateTokenLimit(truncatedTokens, effectiveMax)
       THEN [ok |-> FALSE, req |-> req]
       ELSE [ok |-> TRUE, req |-> [req EXCEPT !.prompt = truncated]]

\* callGeminiAPI: the arguments of client.models.generateContent
GenerateContentArgs(req, cfg) ==
    [model |-> modelOf(req, cfg), contents |-> req.prompt,
     maxOutputTokens |-> effectiveMaxOf(req, cfg)]

\* callGeminiAPI without the empty-text check
ReplyOutcome_AcceptsEmpty(text, finishReason, at) ==
    OpOk([text |-> text,
          finishReason |-> IF finishReason = "" THEN "stop" ELSE finishReason])

\* callGeminiAPI: what a provider reply becomes
ReplyOutcome(text, finishReason, at) ==
    IF text = <<>>
    THEN OpFail([EmptyResponseError EXCEPT !.at = at])
    ELSE OpOk([text |-> text,
               finishReason |-> IF finishReason = "" THEN "stop" ELSE finishReason])

\* The usage entries generateText passes to logUsage
SuccessEntry(req, cfg, tokens, result) ==
    [model |-> modelOf(req, cfg), inputTokens |-> tokens,
     outputTokens |-> estimateTokens(result.text), success |-> TRUE, error |-> ""]

FailureEntry(req, cfg, tokens, geminiError) ==
    [model |-> modelOf(req, cfg), inputTokens |-> tokens,
     outputTokens |-> 0, success |-> FALSE, error |-> geminiError.message]

\* The GenerateTextResponse
Response(req, cfg, tokens, result) ==
    [text |-> result.text, model |-> modelOf(req, cfg), inputTokens |-> tokens,
     outputTokens |-> estimateTokens(result.text),
     finishReason |-> result.finishReason]

(***************************************************************************)
(* utils.ts: withRetry                                                     *)
(***************************************************************************)
\* The catch block giving up one attempt early
AfterFailure_StopsEarly(error, att, maxR) ==
    IF isNonRetryableError(error) THEN "throw"
    ELSE IF att + 1 < maxR THEN "sleep"
    ELSE "exhausted"

\* The catch block sleeping also after the last attempt
AfterFailure_OneTooMany(error, att, maxR) ==
    IF isNonRetryableError(error) THEN "throw"
    ELSE IF att <= maxR THEN "sleep"
    ELSE "exhausted"

\* The catch block of withRetry after the attempt numbered att has failed
AfterFailure(error, att, maxR) ==
    IF isNonRetryableError(error) THEN "throw"
    ELSE IF att < maxR THEN "sleep"
    ELSE "exhausted"

\* A backoff that does not grow with the attempt number
BackoffDelay_Constant(backoff, att) == backoff

\* sleep(backoffMs * attempt)
BackoffDelay(backoff, att) == backoff * att

\* withRetry throws; inside generateText the catch block classifies the
\* error, logs the failed usage entry and throws the classified error
RetryThrows(error) ==
    /\ pc' = "thrown"
    /\ IF mode = "generateText"
       THEN LET geminiError == parseGeminiError(error)
            IN /\ usageLog' = Append(usageLog,
                     FailureEntry(sent, config, inputTokens, geminiError))
               /\ outcome' = Threw(geminiError)
       ELSE /\ usageLog' = usageLog
            /\ outcome' = Threw(error)

\* withRetry returns; inside generateText the result is logged and returned
RetryReturns(result) ==
    /\ pc' = "returned"
    /\ IF mode = "generateText"
       THEN /\ usageLog' = Append(usageLog,
                  SuccessEntry(sent, config, inputTokens, result))
            /\ outcome' = Returned(Response(sent, config, inputTokens, result))
       ELSE /\ usageLog' = usageLog
            /\ outcome' = Returned(result)
    /\ UNCHANGED <<attempt, lastError, sleeps>>

AttemptFailed(error) ==
    /\ lastError' = error
    /\ LET next == AfterFailure(error, attempt, maxRetries)
       IN CASE next = "throw" ->
                 RetryThrows(error) /\ UNCHANGED <<attempt, sleeps>>
            [] next = "sleep" ->
                 /\ pc' = "sleeping"
                 /\ sleeps' = Append(sleeps, BackoffDelay(backoffMs, attempt))
                 /\ UNCHANGED <<attempt, usageLog, outcome>>
            [] OTHER ->
                 RetryThrows(error) /\ attempt' = attempt + 1 /\ UNCHANGED sleeps

(***************************************************************************)
(* Actions of a direct withRetry call on a scripted operation              *)
(***************************************************************************)
\* withRetry(operation, maxRetries, backoffMs) up to its first await
WithRetry(maxR, backoff, script) ==
    /\ pc = "idle"
    /\ mode' = "withRetry"
    /\ maxRetries' = maxR
    /\ backoffMs' = backoff
    /\ plan' = script
    /\ attempt' = 1
    /\ IF 1 <= maxR
       THEN /\ opCalls' = 1
            /\ pc' = "inflight"
            /\ UNCHANGED <<lastError, outcome>>
       ELSE /\ opCalls' = 0
            /\ pc' = "thrown"
            /\ lastError' = lastError
            /\ outcome' = Threw(lastError)
    /\ UNCHANGED <<config, request, sent, inputTokens, sleeps, providerCalls,
                   pending, usageLog>>
    /\ UNCHANGED <<health, otherVars>>

\* The operation of the current attempt resolves
OpResolves ==
    /\ mode = "withRetry" /\ pc = "inflight"
    /\ plan[opCalls].ok
    /\ RetryReturns(plan[opCalls].val)
    /\ UNCHANGED <<mode, config, request, sent, inputTokens, maxRetries,
                   backoffMs, opCalls, plan, providerCalls, pending>>
    /\ UNCHANGED <<health, otherVars>>

\* The operation of the current attempt rejects
OpRejects ==
    /\ mode = "withRetry" /\ pc = "inflight"
    /\ ~plan[opCalls].ok
    /\ AttemptFailed([plan[opCalls].err EXCEPT !.at = opCalls])
    /\ UNCHANGED <<mode, config, request, sent, inputTokens, maxRetries,
                   backoffMs, opCalls, plan, providerCalls, pending>>
    /\ UNCHANGED <<health, otherVars>>

\* The backoff sleep ends: the loop starts the next attempt
SleepDone ==
    /\ pc = "sleeping"
    /\ attempt' = attempt + 1
    /\ opCalls' = opCalls + 1
    /\ pc' = "inflight"
    /\ IF mode = "generateText"
       THEN /\ providerCalls' = Append(providerCalls, GenerateContentArgs(sent, config))
            /\ pending' = pending \cup {attempt + 1}
       ELSE UNCHANGED <<providerCalls, pending>>
    /\ UNCHANGED <<mode, config, request, sent, inputTokens, maxRetries,
                   backoffMs, lastError, sleeps, plan, usageLog, outcome>>
    /\ UNCHANGED <<health, otherVars>>

(***************************************************************************)
(* Actions of GeminiClient.generateText                                    *)
(***************************************************************************)
\* generateText(request) up to its first await: the pre-flight stage, then
\* withRetry -> withTimeout -> callGeminiAPI issue the first provider call
GenerateText(req) ==
    /\ pc = "idle"
    /\ mode' = "generateText"
    /\ request' = req
    /\ inputTokens' = estimateTokens(req.prompt)
    /\ LET pre == PreFlight(req, config)
       IN IF ~pre.ok
          THEN /\ pc' = "thrown"
               /\ outcome' = Threw(InputTokensExceedError)
               /\ UNCHANGED <<sent, retryVars, providerCalls, pending>>
          ELSE /\ sent' = pre.req
               /\ attempt' = 1
               /\ maxRetries' = DefaultMaxRetries
               /\ backoffMs' = DefaultBackoffMs
               /\ opCalls' = 1
               /\ providerCalls' = Append(providerCalls,
                                          GenerateContentArgs(pre.req, config))
               /\ pending' = pending \cup {1}
               /\ pc' = "inflight"
               /\ UNCHANGED <<lastError, sleeps, outcome>>
    /\ UNCHANGED <<config, plan, usageLog>>
    /\ UNCHANGED otherVars

\* The provider answers the call of the current attempt before its deadline
ProviderResolves(text, finishReason) ==
    /\ mode = "generateText" /\ pc = "inflight" /\ attempt \in pending
    /\ pending' = pending \ {attempt}
    /\ LET res == ReplyOutcome(text, finishReason, attempt)
       IN IF res.ok THEN RetryReturns(res.val) ELSE AttemptFailed(res.err)
    /\ UNCHANGED <<mode, config, request, sent, inputTokens, maxRetries,
                   backoffMs, opCalls, plan, providerCalls>>
    /\ UNCHANGED <<health, otherVars>>

\* The provider call of the current attempt fails before its deadline
ProviderRejects(error) ==
    /\ mode = "generateText" /\ pc = "inflight" /\ attempt \in pending
    /\ pending' = pending \ {attempt}
    /\ AttemptFailed([error EXCEPT !.at = attempt])
    /\ UNCHANGED <<mode, config, request, sent, inputTokens, maxRetries,
                   backoffMs, opCalls, plan, providerCalls>>
    /\ UNCHANGED <<health, otherVars>>

\* A withTimeout whose timer never rejects
TimerFires_Never ==
    /\ FALSE
    /\ UNCHANGED vars

\* The withTimeout timer of the current attempt fires first; the provider
\* call stays in flight
TimerFires ==
    /\ mode = "generateText" /\ pc = "inflight" /\ attempt \in pending
    /\ AttemptFailed([OperationTimedOut EXCEPT !.at = attempt])
    /\ UNCHANGED <<mode, config, request, sent, inputTokens, maxRetries,
                   backoffMs, opCalls, plan, providerCalls, pending>>
    /\ UNCHANGED <<health, otherVars>>

\* A late provider response that becomes the result of the call
LateSettle_Adopts(n) ==
    /\ n \in pending
    /\ ~(pc = "inflight" /\ n = attempt)
    /\ pending' = pending \ {n}
    /\ pc' = "returned"
    /\ outcome' = Returned(Response(sent, config, inputTokens,
                                    [text |-> <<"K">>, finishReason |-> "STOP"]))
    /\ UNCHANGED <<mode, config, request, sent, inputTokens, retryVars,
                   plan, providerCalls, usageLog>>
    /\ UNCHANGED <<health, otherVars>>

\* A provider call settles after its attempt was abandoned: Promise.race has
\* already settled, the late result is dropped
LateSettle(n) ==
    /\ n \in pending
    /\ ~(pc = "inflight" /\ n = attempt)
    /\ pending' = pending \ {n}
    /\ UNCHANGED <<mode, config, request, sent, inputTokens, pc, retryVars,
                   plan, providerCalls, usageLog, outcome>>
    /\ UNCHANGED <<health, otherVars>>

(***************************************************************************)
(* gemini-client.ts: healthCheck and healthCheckDetailed                   *)
(***************************************************************************)
\* generateText({prompt: 'Hello', maxTokens: 10})
HealthRequest ==
    [prompt |-> <<"O", "O", "O", "O", "O">>, model |-> "", maxTokens |-> 10]

\* healthCheckDetailed whose catch block rethrows
HealthCheckResult_Rethrows(out) ==
    IF out.kind = "ok"
    THEN [threw |-> FALSE, success |-> TRUE, error |-> ""]
    ELSE [threw |-> TRUE, success |-> FALSE, error |-> out.err.message]

\* healthCheckDetailed once generateText has settled with out
HealthCheckResult(out) ==
    IF out.kind = "ok"
    THEN [threw |-> FALSE, success |-> TRUE, error |-> ""]
    ELSE [threw |-> FALSE, success |-> FALSE,
          error |-> parseGeminiError(out.err).message]

\* healthCheck: result.success, false when healthCheckDetailed throws
HealthCheckValue(detailed) ==
    IF detailed.threw THEN FALSE ELSE detailed.success

\* healthCheck() -> healthCheckDetailed() up to the first await
HealthCheck ==
    /\ pc = "idle"
    /\ health.phase = "none"
    /\ GenerateText(HealthRequest)
    /\ health' = [NoHealth EXCEPT !.phase = "running"]

\* generateText has settled: healthCheckDetailed and healthCheck return
HealthCheckSettles ==
    /\ health.phase = "running"
    /\ pc \in {"returned", "thrown"}
    /\ LET detailed == HealthCheckResult(outcome)
       IN health' = [phase |-> "done", threw |-> detailed.threw,
                     success |-> detailed.success, error |-> detailed.error,
                     value |-> HealthCheckValue(detailed)]
    /\ UNCHANGED <<mode, config, request, sent, inputTokens, pc, retryVars,
                   plan, providerCalls, pending, usageLog, outcome, otherVars>>

Requests ==
    {[prompt |-> p, model |-> m, maxTokens |-> t] :
        p \in Texts(MaxLen), m \in RequestModels, t \in 0..MaxReqTokens}

Scripts(maxR) == [1..maxR -> OpOutcomes]

\* A caller invokes generateText with some request
CallGenerateText ==
    /\ pc = "idle"
    /\ health.phase = "none"
    /\ \E req \in Requests : GenerateText(req)
    /\ UNCHANGED health

\* A caller invokes withRetry with some operation and arguments
CallWithRetry ==
    /\ pc = "idle"
    /\ \E maxR \in 0..MaxRetriesArg, backoff \in BackoffArgs :
          \E script \in Scripts(maxR) : WithRetry(maxR, backoff, script)

Next ==
    \/ CallGenerateText
    \/ \E text \in ReplyTexts, fr \in FinishReasons : ProviderResolves(text, fr)
    \/ \E error \in ProviderErrors : ProviderRejects(error)
    \/ TimerFires
    \/ \E n \in 1..DefaultMaxRetries : LateSettle(n)
    \/ SleepDone
    \/ HealthCheck
    \/ HealthCheckSettles

Spec == Init /\ [][Next]_vars

\* setTimeout callbacks run: the withTimeout timer of a pending attempt and
\* the timer of sleep fire
Fairness == WF_vars(TimerFires) /\ WF_vars(SleepDone)

SpecLive == Spec /\ Fairness

NextRetry ==
    \/ CallWithRetry
    \/ OpResolves
    \/ OpRejects
    \/ SleepDone

InitRetry == Init /\ config.maxTokens = MaxCfgTokens

SpecRetry == InitRetry /\ [][NextRetry]_vars

(***************************************************************************)
(* errors.ts: parseGeminiError applied to every raw error shape            *)
(***************************************************************************)
Statuses == {0, 401, 429, 404, 500}
ErrorNames == {"Error", "TimeoutError"}
ErrorCodes == {"", "TIMEOUT", "ENOTFOUND", "ECONNREFUSED"}

\* The error argument: a message with any set of the substrings (or no
\* message at all), any status, name and code
RawShapes ==
    {RawError("raw message", w, st, n, c) :
        w \in SUBSET Keywords, st \in Statuses, n \in ErrorNames, c \in ErrorCodes}
    \cup {RawError("", {}, st, n, c) :
        st \in Statuses, n \in ErrorNames, c \in ErrorCodes}

\* parseGeminiError(fnArg)
Classify ==
    /\ mode = "parseGeminiError"
    /\ pc = "idle"
    /\ fnResult' = parseGeminiError(fnArg)
    /\ pc' = "returned"
    /\ UNCHANGED <<mode, config, request, sent, inputTokens, retryVars, plan,
                   providerCalls, pending, usageLog, outcome, health, client,
                   fnArg, tagsRequest, llmCalls, dbVars>>

NextClassify == Classify

InitClassify ==
    /\ InitClient
    /\ InitStore
    /\ config.maxTokens = MaxCfgTokens
    /\ mode = "parseGeminiError"
    /\ fnArg \in RawShapes
    /\ tagsRequest = NoTagsRequest

SpecClassify == InitClassify /\ [][NextClassify]_vars

(***************************************************************************)
(* config.ts getGeminiConfig; gemini-client.ts constructor, updateConfig   *)
(***************************************************************************)
MaxTokensLimit == 32768
TimeoutLimit == 60000
RateLimitLimit == 1000
DefaultMaxTokens == 8192
DefaultRateLimit == 60

\* The value NaN of a JavaScript number; every comparison with it is false
NaN == -999999999
LessEq(a, b) == a # NaN /\ b # NaN /\ a <= b
Greater(a, b) == a # NaN /\ b # NaN /\ a > b

\* parseInt on the strings the environment is drawn from
parseInt(str) ==
    CASE str = "0" -> 0
      [] str = "-1" -> -1
      [] str = "60" -> DefaultRateLimit
      [] str = "1000" -> RateLimitLimit
      [] str = "1001" -> RateLimitLimit + 1
      [] str = "8192" -> DefaultMaxTokens
      [] str = "10000" -> DefaultTimeoutMs
      [] str = "32768" -> MaxTokensLimit
      [] str = "32769" -> MaxTokensLimit + 1
      [] str = "60000" -> TimeoutLimit
      [] str = "60001" -> TimeoutLimit + 1
      [] OTHER -> NaN

\* a || b on strings
OrElse(a, b) == IF a = "" THEN b ELSE a

\* process.env; "" is an unset (or empty) variable
Environments ==
    [GOOGLE_API_KEY : {"", "key-1"},
     GEMINI_MODEL : {""},
     GEMINI_MAX_TOKENS : {"", "0", "32768", "32769", "abc"},
     GEMINI_TIMEOUT_MS : {"", "-1", "60000", "60001"},
     GEMINI_RATE_LIMIT : {"", "1000", "1001"}]

\* Partial<GeminiConfig>: a record with any of the fields
Partials ==
    {<<>>,
     [apiKey |-> "key-2"], [apiKey |-> ""],
     [maxTokens |-> 0], [maxTokens |-> 100], [maxTokens |-> MaxTokensLimit + 1],
     [timeout |-> 0], [timeout |-> 5000],
     [rateLimitPerMinute |-> RateLimitLimit + 1],
     [apiKey |-> "key-2", maxTokens |-> 100]}

\* { ...a, ...b }
Spread(a, b) ==
    [k \in DOMAIN a \cup DOMAIN b |-> IF k \in DOMAIN b THEN b[k] ELSE a[k]]

\* The range checks of getGeminiConfig
PassesChecks(cfg) ==
    /\ cfg.apiKey # ""
    /\ ~(LessEq(cfg.maxTokens, 0) \/ Greater(cfg.maxTokens, MaxTokensLimit))
    /\ ~(LessEq(cfg.timeout, 0) \/ Greater(cfg.timeout, TimeoutLimit))
    /\ ~(LessEq(cfg.rateLimitPerMinute, 0)
          \/ Greater(cfg.rateLimitPerMinute, RateLimitLimit))

\* getGeminiConfig: ok = FALSE when it throws
getGeminiConfig(env) ==
    LET cfg == [apiKey |-> env.GOOGLE_API_KEY,
                model |-> OrElse(env.GEMINI_MODEL, DefaultModel),
                maxTokens |-> parseInt(OrElse(env.GEMINI_MAX_TOKENS, "8192")),
                timeout |-> parseInt(OrElse(env.GEMINI_TIMEOUT_MS, "10000")),
                rateLimitPerMinute |->
                    parseInt(OrElse(env.GEMINI_RATE_LIMIT, "60"))]
    IN [ok |-> PassesChecks(cfg), config |-> cfg]

NoConfig == <<>>

\* new GeminiClient(override) under the environment env
Construct ==
    /\ mode = "config"
    /\ pc = "idle"
    /\ LET defaultConfig == getGeminiConfig(fnArg.env)
       IN IF defaultConfig.ok
          THEN /\ config' = Spread(defaultConfig.config, fnArg.override)
               /\ client' = config'.apiKey
               /\ pc' = "ready"
          ELSE /\ pc' = "thrown"
               /\ UNCHANGED <<config, client>>
    /\ UNCHANGED <<mode, request, sent, inputTokens, retryVars, plan,
                   providerCalls, pending, usageLog, outcome, health,
                   fnArg, fnResult, tagsRequest, llmCalls, dbVars>>

\* updateConfig(newConfig)
UpdateConfig(newConfig) ==
    /\ config' = Spread(config, newConfig)
    /\ client' = IF "apiKey" \in DOMAIN newConfig /\ newConfig.apiKey # ""
                 THEN config'.apiKey
                 ELSE client

CallUpdateConfig ==
    /\ mode = "config"
    /\ pc = "ready"
    /\ \E newConfig \in Partials : UpdateConfig(newConfig)
    /\ UNCHANGED <<mode, request, sent, inputTokens, pc, retryVars, plan,
                   providerCalls, pending, usageLog, outcome, health,
                   fnArg, fnResult, tagsRequest, llmCalls, dbVars>>

NextConfig ==
    \/ Construct
    \/ CallUpdateConfig

InitConfig ==
    /\ InitCalls
    /\ InitStore
    /\ mode = "config"
    /\ config = NoConfig
    /\ client = ""
    /\ fnArg \in [env : Environments, override : Partials]
    /\ tagsRequest = NoTagsRequest

SpecConfig == InitConfig /\ [][NextConfig]_vars

(***************************************************************************)
(* tag-generation.ts: parseTagsResponse                                    *)
(***************************************************************************)
MaxTagLength == 10
DefaultMaxTags == 6

\* The characters of a model reply: q is the double quote, n the line
\* break, s a space, a a letter, 1 a digit
ReplyChars == {"[", "]", "q", ",", "n", "s", "a", "1"}

Rep(c, k) == [i \in 1..k |-> c]
First(S) == CHOOSE i \in S : \A j \in S : i <= j
Take(seq, k) == SubSeq(seq, 1, Min(k, Len(seq)))

IsSpace(c) == c \in {"s", "n", "S"}

RECURSIVE TrimEnd(_)
TrimEnd(text) ==
    IF text # <<>> /\ IsSpace(text[Len(text)])
    THEN TrimEnd(SubSeq(text, 1, Len(text) - 1))
    ELSE text

RECURSIVE TrimStart(_)
TrimStart(text) ==
    IF text # <<>> /\ IsSpace(text[1]) THEN TrimStart(Tail(text)) ELSE text

\* String.prototype.trim
Trim(text) == TrimStart(TrimEnd(text))

\* The pieces of text between the separators at the positions cuts
SplitAt(text, cuts) ==
    LET nth(k) == CHOOSE c \in cuts : Cardinality({e \in cuts : e < c}) = k - 1
        from(k) == IF k = 1 THEN 1 ELSE nth(k - 1) + 1
        to(k) == IF k = Cardinality(cuts) + 1 THEN Len(text) ELSE nth(k) - 1
    IN [k \in 1..(Cardinality(cuts) + 1) |-> SubSeq(text, from(k), to(k))]

\* response.match(/\[([\s\S]*?)\]/): from the first "[" to the first "]"
\* after it
jsonMatch(response) ==
    LET opens == {i \in 1..Len(response) : response[i] = "["}
        closes == IF opens = {} THEN {}
                  ELSE {j \in 1..Len(response) :
                            j > First(opens) /\ response[j] = "]"}
    IN IF closes = {} THEN [found |-> FALSE, inner |-> <<>>]
       ELSE [found |-> TRUE,
             inner |-> SubSeq(response, First(opens) + 1, First(closes) - 1)]

\* One element of a JSON array: a string, a number, or no JSON value
JsonValue(piece) ==
    LET v == Trim(piece)
    IN IF /\ Len(v) >= 2 /\ v[1] = "q" /\ v[Len(v)] = "q"
          /\ \A i \in 2..(Len(v) - 1) : v[i] \notin {"q", "n"}
       THEN [kind |-> "string", val |-> SubSeq(v, 2, Len(v) - 1)]
       ELSE IF v # <<>> /\ \A i \in 1..Len(v) : v[i] = "1"
       THEN [kind |-> "number", val |-> v]
       ELSE [kind |-> "invalid", val |-> <<>>]

\* JSON.parse(`[${inner}]`); ok = FALSE when it throws
JsonParse(inner) ==
    LET cuts == {i \in 1..Len(inner) :
                    /\ inner[i] = ","
                    /\ Count(SubSeq(inner, 1, i - 1), "q") % 2 = 0}
        pieces == SplitAt(inner, cuts)
        values == [k \in DOMAIN pieces |-> JsonValue(pieces[k])]
    IN IF Trim(inner) = <<>> THEN [ok |-> TRUE, values |-> <<>>]
       ELSE IF \E k \in DOMAIN values : values[k].kind = "invalid"
       THEN [ok |-> FALSE, values |-> <<>>]
       ELSE [ok |-> TRUE, values |-> values]

IsTagString(value) == value.kind = "string" /\ Trim(value.val) # <<>>

\* The JSON path without the slice
JsonPathTags_NoSlice(values, maxTags) ==
    LET strings == SelectSeq(values, IsTagString)
    IN [k \in DOMAIN strings |-> Trim(strings[k].val)]

\* parsed.filter(...).map(tag => tag.trim()).slice(0, maxTags)
JsonPathTags(values, maxTags) ==
    LET strings == SelectSeq(values, IsTagString)
    IN Take([k \in DOMAIN strings |-> Trim(strings[k].val)], maxTags)

\* cleanLine.replace(/^["']|["']$/g, '').trim()
StripQuotes(cleanLine) ==
    LET head == IF cleanLine # <<>> /\ cleanLine[1] = "q"
                THEN Tail(cleanLine) ELSE cleanLine
        body == IF head # <<>> /\ head[Len(head)] = "q"
                THEN SubSeq(head, 1, Len(head) - 1) ELSE head
    IN Trim(body)

\* The test of one line in the for loop
LineAccepted(line) ==
    LET cleanLine == Trim(line)
    IN /\ cleanLine # <<>>
       /\ cleanLine[1] \notin {"[", "]"}
       /\ StripQuotes(cleanLine) # <<>>
       /\ Len(StripQuotes(cleanLine)) <= MaxTagLength

\* The for loop over lines from line k on, with its break
RECURSIVE LineLoop(_, _, _, _)
LineLoop(lines, k, tags, maxTags) ==
    IF k > Len(lines) THEN tags
    ELSE IF LineAccepted(lines[k])
    THEN LET pushed == Append(tags, StripQuotes(Trim(lines[k])))
         IN IF Len(pushed) >= maxTags THEN pushed
            ELSE LineLoop(lines, k + 1, pushed, maxTags)
    ELSE LineLoop(lines, k + 1, tags, maxTags)

\* response.split('\n') ... return tags.slice(0, maxTags)
LinePathTags(response, maxTags) ==
    LET lines == SplitAt(response,
                         {i \in 1..Len(response) : response[i] = "n"})
    IN Take(LineLoop(lines, 1, <<>>, maxTags), maxTags)

\* parseTagsResponse without the try/catch around its body
parseTagsResponse_NoCatch(response, maxTags) ==
    LET match == jsonMatch(response)
        parsed == JsonParse(match.inner)
    IN IF match.found /\ ~parsed.ok THEN [threw |-> TRUE, tags |-> <<>>]
       ELSE IF match.found
       THEN [threw |-> FALSE, tags |-> JsonPathTags(parsed.values, maxTags)]
       ELSE [threw |-> FALSE, tags |-> LinePathTags(response, maxTags)]

\* parseTagsResponse(response, maxTags)
parseTagsResponse(response, maxTags) ==
    LET match == jsonMatch(response)
        parsed == JsonParse(match.inner)
    IN IF match.found /\ ~parsed.ok THEN [threw |-> FALSE, tags |-> <<>>]
       ELSE IF match.found
       THEN [threw |-> FALSE, tags |-> JsonPathTags(parsed.values, maxTags)]
       ELSE [threw |-> FALSE, tags |-> LinePathTags(response, maxTags)]

(***************************************************************************)
(* tag-generation.ts: generateTags                                         *)
(***************************************************************************)
MinContentLength == 100
DefaultTagMaxTokens == 2000
DefaultTagModel == "gemini-2.0-flash-001"
TagTemperature == "0.3"

\* An optional number left out of the request
Absent == -1
OrDefault(value, default) == IF value = Absent THEN default ELSE value

\* Note contents: empty, one character short, short once trimmed, just long
\* enough, and one with a space to cut at.  For each of them and each
\* maxTokens of TagsRequests the exact quotient of truncateText equals the
\* double-precision result.
Contents ==
    {<<>>,
     Rep("O", MinContentLength - 1),
     Rep("S", 5) \o Rep("O", MinContentLength - 1) \o Rep("S", 5),
     Rep("O", MinContentLength),
     Rep("O", 50) \o <<"S">> \o Rep("O", 60)}

TagsRequests ==
    [content : Contents, maxTags : {Absent} \cup 0..MaxTagsArg,
     model : {""}, maxTokens : {Absent, 20}]

RECURSIVE Join(_, _)
Join(seqs, sep) ==
    IF seqs = <<>> THEN <<>>
    ELSE IF Len(seqs) = 1 THEN seqs[1]
    ELSE seqs[1] \o <<sep>> \o Join(Tail(seqs), sep)

\* Elements of a JSON array reply: a tag, an over-long tag, a number, a
\* blank string, a padded tag
Elements ==
    {<<"q", "a", "q">>,
     <<"q">> \o Rep("a", MaxTagLength + 1) \o <<"q">>,
     <<"1">>,
     <<"q", "s", "q">>,
     <<"s", "q", "a", "1", "s", "q">>}

\* Lines of a line-list reply
Lines ==
    {<<"a">>, Rep("a", MaxTagLength + 1), <<"q", "a", "1", "q">>, <<"s">>,
     <<"]", "a">>}

\* response.text: every text of up to MaxReplyLen characters, JSON arrays and
\* line lists of up to MaxElems entries, and one of each with more entries
\* than the default maxTags
Replies ==
    UNION {[1..k -> ReplyChars] : k \in 0..MaxReplyLen}
    \cup {<<"[">> \o Join(e, ",") \o <<"]">> :
              e \in UNION {[1..k -> Elements] : k \in 0..MaxElems}}
    \cup {Join(l, "n") : l \in UNION {[1..k -> Lines] : k \in 1..MaxElems}}
    \cup {<<"[">> \o Join(Rep(<<"q", "a", "q">>, DefaultMaxTags + 1), ",")
              \o <<"]">>,
          Join(Rep(<<"a">>, DefaultMaxTags + 1), "n")}

\* What LlmClient.generateText may reject with: a classified error of any
\* kind, a plain Error, a thrown value that is not an Error
LlmErrors ==
    {GeminiError(t, "classified", {}, 0, 0) : t \in GeminiErrorType}
    \cup {RawError("API Error", {}, 0, "Error", ""),
          Err("string", "", "", {}, 0, "", "", 0, 0)}

\* '노트 내용이 100자 이상이어야 합니다'
InvalidInputError ==
    GeminiError("INVALID_INPUT", "content must be at least 100 characters",
                {}, 0, 0)

\* '토큰 제한을 초과했습니다'
TagTokenLimitError ==
    GeminiError("TOKEN_LIMIT_EXCEEDED", "token limit exceeded", {"token", "limit"},
                0, 0)

\* The input validation without the trim
ContentTooShort_NoTrim(content) ==
    content = <<>> \/ Len(content) < MinContentLength

\* !content || content.trim().length < 100
ContentTooShort(content) ==
    content = <<>> \/ Len(Trim(content)) < MinContentLength

\* createTagPrompt: the fixed template around content and maxTags
createTagPrompt(content, maxTags) == [content |-> content, maxTags |-> maxTags]

\* The stages of generateTags before the remote call: ok = FALSE when it
\* throws error, else call is the argument of geminiClient.generateText
TagsPreFlight(req) ==
    LET maxTags == OrDefault(req.maxTags, DefaultMaxTags)
        maxTokens == OrDefault(req.maxTokens, DefaultTagMaxTokens)
        inputTokens_ == estimateTokens(req.content)
        truncated == truncateText(req.content, maxTokens)
        fits == validateTokenLimit(inputTokens_, maxTokens)
        content == IF fits THEN req.content ELSE truncated
        call == [prompt |-> createTagPrompt(content, maxTags),
                 model |-> OrElse(req.model, DefaultTagModel),
                 maxTokens |-> maxTokens,
                 temperature |-> TagTemperature]
    IN IF ContentTooShort(req.content)
       THEN [ok |-> FALSE, error |-> InvalidInputError, call |-> call]
       ELSE IF ~fits /\ ~validateTokenLimit(estimateTokens(truncated), maxTokens)
       THEN [ok |-> FALSE, error |-> TagTokenLimitError, call |-> call]
       ELSE [ok |-> TRUE, error |-> Undefined, call |-> call]

\* The catch block of generateTags
TagsCatch(error) ==
    IF error.cls = "GeminiError" THEN error
    ELSE GeminiError("API_ERROR",
                     "tag generation failed: "
                         \o (IF error.cls = "Error" THEN error.message
                             ELSE "unknown error"),
                     error.words, 0, error.at)

tagsVars == <<config, request, sent, inputTokens, retryVars, providerCalls,
              pending, usageLog, health, client, fnArg, dbVars>>

\* generateTags(tagsRequest) up to the await
GenerateTags ==
    /\ mode = "generateTags"
    /\ pc = "idle"
    /\ LET pre == TagsPreFlight(tagsRequest)
       IN IF pre.ok
          THEN /\ llmCalls' = Append(llmCalls, pre.call)
               /\ pc' = "inflight"
               /\ UNCHANGED outcome
          ELSE /\ outcome' = Threw(pre.error)
               /\ pc' = "thrown"
               /\ UNCHANGED llmCalls
    /\ UNCHANGED <<mode, tagsRequest, plan, fnResult, tagsVars>>

\* geminiClient.generateText resolves with response.text = text
LlmResolves(text) ==
    /\ plan' = <<OpOk(text)>>
    /\ fnResult' = parseTagsResponse(text, llmCalls[1].prompt.maxTags)
    /\ IF fnResult'.threw
       THEN /\ outcome' = Threw(TagsCatch(RawError("SyntaxError", {}, 0,
                                                   "SyntaxError", "")))
            /\ pc' = "thrown"
       ELSE /\ outcome' = Returned(fnResult'.tags)
            /\ pc' = "returned"
    /\ UNCHANGED <<mode, tagsRequest, llmCalls, tagsVars>>

\* geminiClient.generateText rejects with error
LlmRejects(error) ==
    /\ plan' = <<OpFail(error)>>
    /\ outcome' = Threw(TagsCatch(error))
    /\ pc' = "thrown"
    /\ UNCHANGED <<mode, tagsRequest, llmCalls, fnResult, tagsVars>>

LlmReplies ==
    /\ mode = "generateTags"
    /\ pc = "inflight"
    /\ \E text \in Replies : LlmResolves(text)

LlmFails ==
    /\ mode = "generateTags"
    /\ pc = "inflight"
    /\ \E error \in LlmErrors : LlmRejects(error)

NextTags ==
    \/ GenerateTags
    \/ LlmReplies
    \/ LlmFails

InitTags ==
    /\ InitClient
    /\ InitStore
    /\ config.maxTokens = MaxCfgTokens
    /\ mode = "generateTags"
    /\ fnArg = <<>>
    /\ tagsRequest \in TagsRequests

SpecTags == InitTags /\ [][NextTags]_vars

(***************************************************************************)
(* utils.ts: truncateText applied to every text and budget                 *)
(***************************************************************************)
\* truncateText(fnArg.text, fnArg.maxTokens)
Truncate ==
    /\ mode = "truncateText"
    /\ pc = "idle"
    /\ fnResult' = truncateText(fnArg.text, fnArg.maxTokens)
    /\ pc' = "returned"
    /\ UNCHANGED <<mode, config, request, sent, inputTokens, retryVars, plan,
                   providerCalls, pending, usageLog, outcome, health, client,
                   fnArg, tagsRequest, llmCalls, dbVars>>

NextTruncate == Truncate

InitTruncate ==
    /\ InitClient
    /\ InitStore
    /\ config.maxTokens = MaxCfgTokens
    /\ mode = "truncateText"
    /\ fnArg \in [text : Texts(MaxLen), maxTokens : 1..MaxCfgTokens]
    /\ tagsRequest = NoTagsRequest

SpecTruncate == InitTruncate /\ [][NextTruncate]_vars

(***************************************************************************)
(* gemini-client.ts: updateConfig during an in-flight generateText         *)
(***************************************************************************)
OtherModel == "gemini-2.5-pro"
ModelUpdates == {[model |-> OtherModel]}

\* Another caller runs updateConfig(newConfig) while generateText awaits the
\* provider or the backoff sleep
UpdateConfigDuringCall ==
    /\ mode = "generateText"
    /\ pc \in {"inflight", "sleeping"}
    /\ \E newConfig \in ModelUpdates : UpdateConfig(newConfig)
    /\ UNCHANGED <<mode, request, sent, inputTokens, pc, retryVars, plan,
                   providerCalls, pending, usageLog, outcome, health,
                   fnArg, fnResult, tagsRequest, llmCalls, dbVars>>

NextRace ==
    \/ Next
    \/ UpdateConfigDuringCall

SpecRace == Init /\ [][NextRace]_vars

(***************************************************************************)
(* tag-generation.ts generateTags followed by gemini-client.ts generateText *)
(***************************************************************************)
\* The template of createTagPrompt before ${content}, character by
\* character (Hangul, space, other), with a one-digit maxTags
TagPromptHead ==
    <<"K", "K", "S", "K", "K", "S", "K", "K", "K", "S", "K", "K", "K", "K",
      "S", "K", "K", "K", "S", "K", "K", "S", "K", "K", "K", "S", "K", "K",
      "S", "O", "K", "S", "K", "K", "K", "K", "K", "K", "O", "O", "O", "K",
      "K", "K", "K", "O", "O", "O", "O", "S", "K", "K", "K", "S", "K", "K",
      "K", "K", "S", "K", "K", "O", "O", "O", "S", "K", "S", "K", "K", "K",
      "S", "O", "O", "O", "O", "K", "S", "K", "K", "O", "O", "O", "S", "K",
      "K", "K", "K", "K", "S", "K", "K", "K", "S", "K", "K", "K", "S", "K",
      "K", "O", "O", "O", "S", "K", "K", "K", "K", "S", "K", "K", "S", "K",
      "K", "K", "S", "K", "K", "K", "S", "K", "K", "O", "O", "O", "S", "O",
      "O", "O", "O", "S", "K", "K", "S", "K", "K", "K", "S", "K", "K", "O",
      "O", "K", "K", "S", "K", "K", "O", "O">>

\* The template of createTagPrompt after ${content}
TagPromptTail ==
    <<"O", "O", "K", "K", "S", "K", "K", "O", "O", "O", "O", "K", "K", "O",
      "O", "O", "S", "O", "K", "K", "O", "O", "O", "S", "O", "K", "K", "O",
      "O", "O">>

\* The string createTagPrompt returns
PromptText(prompt) == TagPromptHead \o prompt.content \o TagPromptTail

\* Note contents of 100 characters and more, and maxTokens arguments; for
\* each pair the exact quotient of truncateText equals the double-precision
\* result, for the content and for the prompt built from it
PromptContents ==
    {Rep("O", n) : n \in 100..105} \cup {Rep("K", n) : n \in 100..103}
    \cup {Rep("O", 50) \o <<"S">> \o Rep("O", 60),
          Rep("O", 50) \o <<"S">> \o Rep("O", 200),
          Rep("K", 40) \o <<"S">> \o Rep("K", 80)}
PromptBudgets == {20, 200, 250, 300, DefaultTagMaxTokens}

\* generateTags up to geminiClient.generateText, then the pre-flight stage
\* of generateText on the request it was given
TagsThenClient(content, maxTokens, cfg) ==
    LET pre == TagsPreFlight([content |-> content, maxTags |-> Absent,
                              model |-> "", maxTokens |-> maxTokens])
        text == PromptText(pre.call.prompt)
    IN [accepted |-> pre.ok,
        prompt |-> text,
        client |-> PreFlight([prompt |-> text, model |-> pre.call.model,
                              maxTokens |-> pre.call.maxTokens], cfg)]

SendTagPrompt ==
    /\ mode = "tagPrompt"
    /\ pc = "idle"
    /\ fnResult' = TagsThenClient(fnArg.content, fnArg.maxTokens, config)
    /\ pc' = "returned"
    /\ UNCHANGED <<mode, config, request, sent, inputTokens, retryVars, plan,
                   providerCalls, pending, usageLog, outcome, health, client,
                   fnArg, tagsRequest, llmCalls, dbVars>>

NextPrompt == SendTagPrompt

InitPrompt ==
    /\ InitClient
    /\ InitStore
    /\ config.maxTokens = MaxCfgTokens
    /\ mode = "tagPrompt"
    /\ fnArg \in [content : PromptContents, maxTokens : PromptBudgets]
    /\ tagsRequest = NoTagsRequest

SpecPrompt == InitPrompt /\ [][NextPrompt]_vars

(***************************************************************************)
(* POST /api/notes/[id]/summary                                            *)
(***************************************************************************)
NoteIds == {"n1", "n2"}
SummaryTexts == {"s1", "s2"}

\* Everything but the tables and the handlers that write them
clientVars == <<mode, config, request, sent, inputTokens, pc, retryVars, plan,
                providerCalls, pending, usageLog, outcome, health, client,
                fnArg, fnResult, tagsRequest, llmCalls>>

\* db.select().from(summaries).where(eq(summaries.noteId, id)).limit(1)
SelectSummary(rows, id) ==
    IF \E r \in rows : r.noteId = id
    THEN CHOOSE r \in rows : r.noteId = id
    ELSE NoSummary

\* db.update(summaries).set({content, model}).where(eq(summaries.noteId, id))
UpdateSummary(rows, id, result) ==
    {IF r.noteId = id
     THEN [r EXCEPT !.content = result.text, !.model = result.model]
     ELSE r : r \in rows}

\* The row db.insert(summaries).values({noteId, model, content}) adds
NewSummary(rows, id, result) ==
    [id |-> Cardinality(rows) + 1, noteId |-> id, model |-> result.model,
     content |-> result.text]

\* The insert on a table without the index summaries_note_unique
InsertSummary_NoUniqueIndex(rows, id, result) ==
    [ok |-> TRUE, rows |-> rows \cup {NewSummary(rows, id, result)}]

\* db.insert(summaries).values(...): the unique index summaries_note_unique
\* rejects a second row of the same note
InsertSummary(rows, id, result) ==
    IF \E r \in rows : r.noteId = id
    THEN [ok |-> FALSE, rows |-> rows]
    ELSE [ok |-> TRUE, rows |-> rows \cup {NewSummary(rows, id, result)}]

Respond(p, status, summary) ==
    posts' = [posts EXCEPT ![p].pc = "done",
                           ![p].response = [status |-> status,
                                            summary |-> summary]]

\* A request arrives: params and the body's regenerate
PostArrives(p, id, regenerate) ==
    /\ posts[p].pc = "none"
    /\ \A q \in PostIds : q < p => posts[q].pc # "none"
    /\ posts' = [posts EXCEPT ![p] = [NoPost EXCEPT !.pc = "auth",
                                                    !.noteId = id,
                                                    !.regenerate = regenerate]]
    /\ UNCHANGED summaries

\* supabase.auth.getUser() and the select of the note
PostAuthorizes(p, found) ==
    /\ posts[p].pc = "auth"
    /\ CASE found = "unauthorized" -> Respond(p, 401, NoSummary)
         [] found = "missing" -> Respond(p, 404, NoSummary)
         [] found = "throws" -> Respond(p, 500, NoSummary)
         [] OTHER -> posts' = [posts EXCEPT ![p].pc = "generate"]
    /\ UNCHANGED summaries

\* await client.generateText(...)
PostGenerates(p, ok, text) ==
    /\ posts[p].pc = "generate"
    /\ IF ok
       THEN posts' = [posts EXCEPT ![p].pc = "select",
                                   ![p].result = [text |-> text,
                                                  model |-> config.model]]
       ELSE Respond(p, 500, NoSummary)
    /\ UNCHANGED summaries

\* const [existing] = await db.select()...; if (existing && !regenerate) return
PostSelectsExisting(p) ==
    /\ posts[p].pc = "select"
    /\ LET existing == SelectSummary(summaries, posts[p].noteId)
       IN IF existing # NoSummary /\ ~posts[p].regenerate
          THEN posts' = [posts EXCEPT ![p].pc = "done",
                                      ![p].existing = existing,
                                      ![p].response = [status |-> 200,
                                                       summary |-> existing]]
          ELSE posts' = [posts EXCEPT ![p].pc = "upsert",
                                      ![p].existing = existing]
    /\ UNCHANGED summaries

\* if (existing) update ... else insert ...
PostUpserts(p) ==
    /\ posts[p].pc = "upsert"
    /\ IF posts[p].existing # NoSummary
       THEN /\ summaries' = UpdateSummary(summaries, posts[p].noteId,
                                          posts[p].result)
            /\ posts' = [posts EXCEPT ![p].pc = "saved"]
       ELSE LET inserted == InsertSummary(summaries, posts[p].noteId,
                                          posts[p].result)
            IN /\ summaries' = inserted.rows
               /\ IF inserted.ok
                  THEN posts' = [posts EXCEPT ![p].pc = "saved"]
                  ELSE Respond(p, 500, NoSummary)

\* const [saved] = await db.select()...; return {success: true, summary: saved}
PostSelectsSaved(p) ==
    /\ posts[p].pc = "saved"
    /\ Respond(p, 200, SelectSummary(summaries, posts[p].noteId))
    /\ UNCHANGED summaries

summaryFrame == <<clientVars, tagsTable, noteTags, tagsAction>>

PostRequest ==
    /\ mode = "summary"
    /\ \E p \in PostIds, id \in NoteIds, regenerate \in BOOLEAN :
           PostArrives(p, id, regenerate)
    /\ UNCHANGED summaryFrame

PostAuth ==
    /\ mode = "summary"
    /\ \E p \in PostIds,
          found \in {"ok", "unauthorized", "missing", "throws"} :
           PostAuthorizes(p, found)
    /\ UNCHANGED summaryFrame

PostGenerate ==
    /\ mode = "summary"
    /\ \E p \in PostIds, ok \in BOOLEAN, text \in SummaryTexts :
           PostGenerates(p, ok, text)
    /\ UNCHANGED summaryFrame

PostSelect ==
    /\ mode = "summary"
    /\ \E p \in PostIds : PostSelectsExisting(p)
    /\ UNCHANGED summaryFrame

PostUpsert ==
    /\ mode = "summary"
    /\ \E p \in PostIds : PostUpserts(p)
    /\ UNCHANGED summaryFrame

PostSaved ==
    /\ mode = "summary"
    /\ \E p \in PostIds : PostSelectsSaved(p)
    /\ UNCHANGED summaryFrame

NextSummary ==
    \/ PostRequest
    \/ PostAuth
    \/ PostGenerate
    \/ PostSelect
    \/ PostUpsert
    \/ PostSaved

\* The table holds no summary or one summary of a note
StoredSummaries ==
    {{}} \cup {{[id |-> 1, noteId |-> id, model |-> DefaultModel,
                 content |-> "s0"]} : id \in NoteIds}

InitSummary ==
    /\ InitClient
    /\ config.maxTokens = MaxCfgTokens
    /\ mode = "summary"
    /\ fnArg = <<>>
    /\ tagsRequest = NoTagsRequest
    /\ summaries \in StoredSummaries
    /\ tagsTable = {}
    /\ noteTags = {}

SpecSummary == InitSummary /\ [][NextSummary]_vars

(***************************************************************************)
(* generateTagsForNote                                                     *)
(***************************************************************************)
TagNames == {"t1", "t2"}
UserId == "u1"
NoTag == [id |-> 0, name |-> "", userId |-> ""]

\* result.tags of tagService.generateTags
ServiceTagLists == UNION {[1..n -> TagNames] : n \in 0..MaxServiceTags}

\* The tags a note is linked to
LinkedTags(links, noteId) == {l.tagId : l \in {x \in links : x.noteId = noteId}}

\* db.delete(noteTags).where(eq(noteTags.noteId, noteId))
removeAllTagsFromNote(links, noteId) == {l \in links : l.noteId # noteId}

\* db.select().from(tags).where(userId and name).limit(1); result[0] || null
getTagByName(rows, userId, tagName) ==
    IF \E t \in rows : t.userId = userId /\ t.name = tagName
    THEN CHOOSE t \in rows : t.userId = userId /\ t.name = tagName
    ELSE NoTag

\* The row db.insert(tags).values(tagData).returning() adds
createTag(rows, userId, tagName) ==
    [id |-> Cardinality(rows) + 1, name |-> tagName, userId |-> userId]

\* db.insert(noteTags).values({noteId, tagId}): the primary key is the pair
connectNoteToTag(links, noteId, tagId) ==
    LET link == [noteId |-> noteId, tagId |-> tagId]
    IN IF link \in links
       THEN [ok |-> FALSE, links |-> links]
       ELSE [ok |-> TRUE, links |-> links \cup {link}]

ActionFails(error) ==
    tagsAction' = [tagsAction EXCEPT !.pc = "returned",
                                     !.response = [success |-> FALSE,
                                                   error |-> error,
                                                   tags |-> <<>>]]

\* generateTagsForNote(noteId, content) up to removeAllTagsFromNote
GenerateTagsForNote(user, noteId, content) ==
    /\ tagsAction.pc \in {"idle", "returned"}
    /\ tagsAction.calls < MaxTagCalls
    /\ LET call == [NoTagsAction EXCEPT !.calls = tagsAction.calls + 1,
                                        !.noteId = noteId]
       IN IF ~user
          THEN tagsAction' = [call EXCEPT !.pc = "returned",
                                          !.response.error = "login required"]
          ELSE IF noteId = "" \/ ContentTooShort(content)
          THEN tagsAction' = [call EXCEPT !.pc = "returned",
                                          !.response.error = "content too short"]
          ELSE tagsAction' = [call EXCEPT !.pc = "remove",
                                          !.validated = TRUE,
                                          !.linkedBefore =
                                              LinkedTags(noteTags, noteId)]
    /\ UNCHANGED <<tagsTable, noteTags>>

\* await removeAllTagsFromNote(noteId)
RemoveAllTags(ok) ==
    /\ tagsAction.pc = "remove"
    /\ IF ok
       THEN /\ noteTags' = removeAllTagsFromNote(noteTags, tagsAction.noteId)
            /\ tagsAction' = [tagsAction EXCEPT !.pc = "generate"]
       ELSE /\ ActionFails("generic")
            /\ UNCHANGED noteTags
    /\ UNCHANGED tagsTable

\* await tagService.generateTags({content, maxTags: 6}) settles
TagServiceSettles(ok, list, error) ==
    /\ tagsAction.pc = "generate"
    /\ IF ~ok
       THEN ActionFails(IF error.cls = "GeminiError" THEN "gemini" ELSE "generic")
       ELSE IF list = <<>>
       THEN ActionFails("no tags")
       ELSE tagsAction' = [tagsAction EXCEPT !.pc = "loop", !.result = list,
                                             !.i = 1]
    /\ UNCHANGED <<tagsTable, noteTags>>

\* One pass of for (const tagName of result.tags): a statement that throws
\* is caught inside the loop and the tag is skipped
ConnectNextTag(thrown) ==
    /\ tagsAction.pc = "loop"
    /\ tagsAction.i <= Len(tagsAction.result)
    /\ LET tagName == tagsAction.result[tagsAction.i]
           found == getTagByName(tagsTable, UserId, tagName)
           tag == IF found = NoTag THEN createTag(tagsTable, UserId, tagName)
                  ELSE found
           linked == connectNoteToTag(noteTags, tagsAction.noteId, tag.id)
           skipped == [tagsAction EXCEPT !.i = @ + 1]
       IN CASE thrown = "getTagByName" ->
                   /\ tagsAction' = skipped
                   /\ UNCHANGED <<tagsTable, noteTags>>
            [] thrown = "createTag" ->
                   /\ found = NoTag
                   /\ tagsAction' = skipped
                   /\ UNCHANGED <<tagsTable, noteTags>>
            [] thrown = "connectNoteToTag" \/ ~linked.ok ->
                   /\ tagsTable' = tagsTable \cup {tag}
                   /\ tagsAction' = skipped
                   /\ UNCHANGED noteTags
            [] OTHER ->
                   /\ tagsTable' = tagsTable \cup {tag}
                   /\ noteTags' = linked.links
                   /\ tagsAction' = [skipped EXCEPT !.createdTags =
                                                        Append(@, tagName)]

\* After the loop: createdTags.length === 0 is a failure
GenerateTagsForNoteReturns ==
    /\ tagsAction.pc = "loop"
    /\ tagsAction.i > Len(tagsAction.result)
    /\ IF tagsAction.createdTags = <<>>
       THEN ActionFails("no tags")
       ELSE tagsAction' = [tagsAction EXCEPT !.pc = "returned",
                               !.response = [success |-> TRUE, error |-> "",
                                             tags |-> tagsAction.createdTags]]
    /\ UNCHANGED <<tagsTable, noteTags>>

noteTagsFrame == <<clientVars, summaries, posts>>

CallGenerateTagsForNote ==
    /\ mode = "noteTags"
    /\ \E user \in BOOLEAN, noteId \in NoteIds \cup {""}, content \in Contents :
           GenerateTagsForNote(user, noteId, content)
    /\ UNCHANGED noteTagsFrame

RemoveTags ==
    /\ mode = "noteTags"
    /\ \E ok \in BOOLEAN : RemoveAllTags(ok)
    /\ UNCHANGED noteTagsFrame

TagServiceReturns ==
    /\ mode = "noteTags"
    /\ \E list \in ServiceTagLists : TagServiceSettles(TRUE, list, Undefined)
    /\ UNCHANGED noteTagsFrame

TagServiceThrows ==
    /\ mode = "noteTags"
    /\ \E error \in LlmErrors : TagServiceSettles(FALSE, <<>>, error)
    /\ UNCHANGED noteTagsFrame

ConnectTag ==
    /\ mode = "noteTags"
    /\ \E thrown \in {"", "getTagByName", "createTag", "connectNoteToTag"} :
           ConnectNextTag(thrown)
    /\ UNCHANGED noteTagsFrame

ReturnTags ==
    /\ mode = "noteTags"
    /\ GenerateTagsForNoteReturns
    /\ UNCHANGED noteTagsFrame

NextNoteTags ==
    \/ CallGenerateTagsForNote
    \/ RemoveTags
    \/ TagServiceReturns
    \/ TagServiceThrows
    \/ ConnectTag
    \/ ReturnTags

InitNoteTags ==
    /\ InitClient
    /\ InitStore
    /\ config.maxTokens = MaxCfgTokens
    /\ mode = "noteTags"
    /\ fnArg = <<>>
    /\ tagsRequest = NoTagsRequest

SpecNoteTags == InitNoteTags /\ [][NextNoteTags]_vars

(***************************************************************************)
(* Properties                                                              *)
(***************************************************************************)
RetryableKinds == {"NETWORK_ERROR", "TIMEOUT", "QUOTA_EXCEEDED"}
KindOf(error) == parseGeminiError(error).type
Done == pc \in {"returned", "thrown"}
Raised(i) == [plan[i].err EXCEPT !.at = i]
FailsRetryably(i) == ~plan[i].ok /\ KindOf(plan[i].err) \in RetryableKinds
FailsTerminally(i) == ~plan[i].ok /\ KindOf(plan[i].err) \notin RetryableKinds
InGenerateText == mode = "generateText"
TimedOut(error) == error.message = "Operation timed out"

\* C1: withRetry with maxRetries >= 1 whose first attempt fails with a
\* non-retryable error invokes the operation exactly once, starts no backoff
\* sleep and throws that very error.
C1_NonRetryableFailsOnce ==
    (mode = "withRetry" /\ maxRetries >= 1 /\ FailsTerminally(1) /\ pc # "inflight")
        => /\ pc = "thrown"
           /\ opCalls = 1
           /\ sleeps = <<>>
           /\ outcome = Threw(Raised(1))

C1_Witness ==
    /\ mode = "withRetry" /\ maxRetries >= 2 /\ FailsTerminally(1)
    /\ pc = "thrown" /\ opCalls = 1

\* C2: when the operation fails retryably on its first k attempts
\* (k < maxRetries) and succeeds on attempt k+1, withRetry returns that value
\* after exactly k+1 invocations.
C2_SuccessAfterRetries ==
    mode = "withRetry" =>
        \A k \in 0..(maxRetries - 1) :
            ((\A i \in 1..k : FailsRetryably(i)) /\ plan[k + 1].ok)
                => /\ opCalls <= k + 1
                   /\ Done => /\ pc = "returned"
                              /\ opCalls = k + 1
                              /\ outcome = Returned(plan[k + 1].val)

C2_Witness ==
    /\ mode = "withRetry" /\ maxRetries = 3
    /\ FailsRetryably(1) /\ FailsRetryably(2) /\ plan[3].ok
    /\ pc = "returned" /\ opCalls = 3

\* C3: when every attempt fails retryably, the operation is invoked exactly
\* maxRetries times, never more, and the error thrown is the one raised by
\* the last attempt.
C3_ExhaustedThrowsLast ==
    (mode = "withRetry" /\ maxRetries >= 1
        /\ \A i \in 1..maxRetries : FailsRetryably(i))
        => /\ opCalls <= maxRetries
           /\ Done => /\ pc = "thrown"
                      /\ opCalls = maxRetries
                      /\ outcome = Threw(Raised(maxRetries))

C3_Witness ==
    /\ mode = "withRetry" /\ maxRetries = 3
    /\ \A i \in 1..3 : FailsRetryably(i)
    /\ pc = "thrown" /\ opCalls = 3 /\ outcome.err.at = 3

\* C4: a generateText call that fails because the withTimeout timer fired
\* first gives its caller an error of kind TIMEOUT.
C4_TimeoutIsClassifiedTimeout ==
    (InGenerateText /\ pc = "thrown" /\ TimedOut(lastError))
        => outcome.err.type = "TIMEOUT"

\* C5: inside generateText an attempt that fails with a retryable kind
\* (network, quota, or the attempt's timeout) is followed by another attempt
\* while fewer than maxRetries attempts have been made, so the call fails
\* only after maxRetries provider calls.
C5_RetryableKindsAreRetried ==
    (InGenerateText /\ pc = "thrown" /\ providerCalls # <<>>
        /\ (KindOf(lastError) \in RetryableKinds \/ TimedOut(lastError)))
        => Len(providerCalls) = DefaultMaxRetries

\* C6: every prompt that reaches the provider passes the budget check
\* against effectiveMax, and a prompt that fails the check also after
\* truncation makes generateText throw TOKEN_LIMIT_EXCEEDED with no provider
\* call at all.
C6_NoCallOverBudget ==
    InGenerateText =>
        LET effectiveMax == effectiveMaxOf(request, config)
            truncated == truncateText(request.prompt, effectiveMax)
        IN /\ \A i \in DOMAIN providerCalls :
                 validateTokenLimit(estimateTokens(providerCalls[i].contents),
                                    effectiveMax)
           /\ (/\ ~validateTokenLimit(estimateTokens(request.prompt), effectiveMax)
               /\ ~validateTokenLimit(estimateTokens(truncated), effectiveMax))
                 => /\ pc = "thrown"
                    /\ outcome.err.type = "TOKEN_LIMIT_EXCEEDED"
                    /\ providerCalls = <<>>

C6_Witness ==
    /\ InGenerateText /\ pc = "thrown" /\ providerCalls = <<>>
    /\ outcome.err.type = "TOKEN_LIMIT_EXCEEDED"
    /\ estimateTokens(request.prompt) > effectiveMaxOf(request, config)

\* C7 (as stated): every prompt whose estimate is at most effectiveMax is
\* sent unchanged, and every prompt whose estimate exceeds effectiveMax is
\* truncated before the provider call.
C7_TruncatesExactlyAboveEffectiveMax ==
    InGenerateText =>
        LET effectiveMax == effectiveMaxOf(request, config)
            tokens == estimateTokens(request.prompt)
        IN /\ tokens <= effectiveMax
                => /\ providerCalls # <<>>
                   /\ \A i \in DOMAIN providerCalls :
                         providerCalls[i].contents = request.prompt
           /\ tokens > effectiveMax
                => \A i \in DOMAIN providerCalls :
                      /\ providerCalls[i].contents # request.prompt
                      /\ providerCalls[i].contents =
                            truncateText(request.prompt, effectiveMax)

\* The input allowance of a budget: the budget less the reply reserve
AllowedInput(maxTokens) ==
    Max(1, maxTokens - Min(2000, (3 * maxTokens) \div 10))

\* C7 (amended): the threshold is the input allowance of effectiveMax.  A
\* prompt whose estimate is within the allowance is sent unchanged; a prompt
\* whose estimate exceeds it is never sent unchanged: it is either rejected
\* with TOKEN_LIMIT_EXCEEDED before any provider call or sent as
\* truncateText(prompt, effectiveMax).
C7_TruncatesExactlyAboveAllowance ==
    InGenerateText =>
        LET effectiveMax == effectiveMaxOf(request, config)
            tokens == estimateTokens(request.prompt)
        IN /\ tokens <= AllowedInput(effectiveMax)
                => /\ providerCalls # <<>>
                   /\ \A i \in DOMAIN providerCalls :
                         providerCalls[i].contents = request.prompt
           /\ tokens > AllowedInput(effectiveMax)
                => \/ /\ providerCalls = <<>>
                      /\ pc = "thrown"
                      /\ outcome.err.type = "TOKEN_LIMIT_EXCEEDED"
                   \/ /\ providerCalls # <<>>
                      /\ \A i \in DOMAIN providerCalls :
                            /\ providerCalls[i].contents # request.prompt
                            /\ providerCalls[i].contents =
                                  truncateText(request.prompt, effectiveMax)

C7_Witness ==
    /\ InGenerateText /\ providerCalls # <<>>
    /\ providerCalls[1].contents # request.prompt
    /\ providerCalls[1].contents # <<>>

\* C8: a provider reply with empty text never becomes a successful
\* response; the call fails with an error of kind UNKNOWN.
C8_EmptyReplyFails ==
    InGenerateText =>
        /\ outcome.kind = "ok" => outcome.val.text # <<>>
        /\ lastError.message = "Empty response from Gemini API"
             => /\ pc = "thrown"
                /\ outcome.kind = "err"
                /\ outcome.err.type = "UNKNOWN"

C8_Witness ==
    /\ InGenerateText /\ pc = "thrown"
    /\ lastError.message = "Empty response from Gemini API"
    /\ outcome.err.type = "UNKNOWN"

\* C9: every generateText call that has failed, at whatever stage, has
\* recorded a usage entry with success = FALSE.
C9_EveryFailureIsLogged ==
    (InGenerateText /\ pc = "thrown")
        => /\ usageLog # <<>>
           /\ ~usageLog[Len(usageLog)].success

\* C10: every error generateText throws is a GeminiError whose type is a
\* member of GeminiErrorType; the raw provider error never reaches the caller.
C10_OnlyClassifiedErrors ==
    (InGenerateText /\ pc = "thrown")
        => /\ outcome.kind = "err"
           /\ outcome.err.cls = "GeminiError"
           /\ outcome.err.type \in GeminiErrorType

C10_Witness ==
    /\ InGenerateText /\ pc = "thrown" /\ providerCalls # <<>>
    /\ lastError.cls = "Error"
    /\ outcome.err.type = "API_KEY_INVALID"

\* C11: healthCheckDetailed never throws; the success field of its result is
\* true exactly when the underlying generateText call succeeded, and
\* healthCheck returns that same boolean.
C11_HealthCheckAlwaysResolves ==
    health.phase = "done"
        => /\ ~health.threw
           /\ health.success <=> outcome.kind = "ok"
           /\ health.value = health.success

C11_Witness ==
    /\ health.phase = "done" /\ ~health.success /\ ~health.value
    /\ TimedOut(lastError)

\* The condition of the i-th rule of the classifier, in the listed order
RuleMatches(i, error) ==
    CASE i = 1 -> includes(error, "API key") \/ error.status = 401
      [] i = 2 -> error.status = 429 \/ includes(error, "quota")
      [] i = 3 -> error.name = "TimeoutError" \/ error.code = "TIMEOUT"
      [] i = 4 -> includes(error, "content") /\ includes(error, "filter")
      [] i = 5 -> includes(error, "token") /\ includes(error, "limit")
      [] i = 6 -> error.status = 404 \/ includes(error, "model")
      [] i = 7 -> error.code \in {"ENOTFOUND", "ECONNREFUSED"}
      [] OTHER -> TRUE

RuleKinds ==
    <<"API_KEY_INVALID", "QUOTA_EXCEEDED", "TIMEOUT", "CONTENT_FILTERED",
      "TOKEN_LIMIT_EXCEEDED", "MODEL_NOT_FOUND", "NETWORK_ERROR", "UNKNOWN">>

FirstMatch(error) ==
    CHOOSE i \in 1..8 :
        RuleMatches(i, error) /\ \A j \in 1..(i - 1) : ~RuleMatches(j, error)

Classified == mode = "parseGeminiError" /\ pc = "returned"

\* C12: for every raw error shape parseGeminiError returns the kind of the
\* first matching rule in the order API_KEY_INVALID, QUOTA_EXCEEDED, TIMEOUT,
\* CONTENT_FILTERED, TOKEN_LIMIT_EXCEEDED, MODEL_NOT_FOUND, NETWORK_ERROR,
\* UNKNOWN; a message with 'token', 'limit' and 'model' is
\* TOKEN_LIMIT_EXCEEDED, status 429 with 'API key' is API_KEY_INVALID.
C12_FirstMatchingRuleWins ==
    Classified =>
        /\ fnResult.cls = "GeminiError"
        /\ fnResult.type = RuleKinds[FirstMatch(fnArg)]
        /\ (fnArg = RawError("raw message", {"token", "limit", "model"}, 0, "Error", "")
                => fnResult.type = "TOKEN_LIMIT_EXCEEDED")
        /\ (fnArg.status = 429 /\ includes(fnArg, "API key")
                => fnResult.type = "API_KEY_INVALID")

C12_Witness ==
    /\ Classified
    /\ fnArg.words = {"token", "limit", "model"}
    /\ fnArg.status = 404
    /\ fnArg.code = "ENOTFOUND"
    /\ fnResult.type = "TOKEN_LIMIT_EXCEEDED"

\* The bounds the configuration is meant to satisfy
ValidConfig(cfg) ==
    /\ cfg.apiKey # ""
    /\ cfg.maxTokens # NaN /\ 1 <= cfg.maxTokens /\ cfg.maxTokens <= MaxTokensLimit
    /\ cfg.timeout # NaN /\ 1 <= cfg.timeout /\ cfg.timeout <= TimeoutLimit
    /\ cfg.rateLimitPerMinute # NaN /\ 1 <= cfg.rateLimitPerMinute
    /\ cfg.rateLimitPerMinute <= RateLimitLimit

\* C13: in every state of a constructed client (any environment, any
\* constructor override, any sequence of updateConfig calls) the
\* configuration has a non-empty apiKey, 1 <= maxTokens <= 32768,
\* 1 <= timeout <= 60000 and 1 <= rateLimitPerMinute <= 1000, and a
\* configuration violating a bound makes the construction fail.
C13_ConfigAlwaysValid ==
    /\ mode = "config" /\ pc = "ready" => ValidConfig(config)
    /\ mode = "config" /\ pc # "idle"
         /\ ~ValidConfig(Spread(getGeminiConfig(fnArg.env).config, fnArg.override))
         => pc = "thrown"

\* C14: between calls the provider handle was built with the current
\* config.apiKey, after any sequence of updateConfig calls.
C14_HandleHasCurrentKey ==
    mode = "config" /\ pc = "ready" => client = config.apiKey

TagsMode == mode = "generateTags"
\* The reply generateTags received and the maxTags it parsed it with
TagsReturned == TagsMode /\ pc = "returned"
Reply == plan[1].val
MaxTagsUsed == OrDefault(tagsRequest.maxTags, DefaultMaxTags)

AcceptedElements(values) ==
    LET strings == SelectSeq(values, IsTagString)
    IN [k \in DOMAIN strings |-> Trim(strings[k].val)]

\* Every entry the line path accepts, in reply order
AcceptedLines(response) ==
    LET lines == SplitAt(response,
                         {i \in 1..Len(response) : response[i] = "n"})
        kept == SelectSeq(lines, LineAccepted)
    IN [k \in DOMAIN kept |-> StripQuotes(Trim(kept[k]))]

JsonParsed(response) ==
    jsonMatch(response).found /\ JsonParse(jsonMatch(response).inner).ok
JsonFailed(response) ==
    jsonMatch(response).found /\ ~JsonParse(jsonMatch(response).inner).ok

\* C16: for every model reply generateTags returns at most maxTags tags; on
\* the JSON path and on the line path the result is the first maxTags
\* accepted entries in reply order.
C16_AtMostMaxTags ==
    TagsReturned =>
        /\ Len(outcome.val) <= MaxTagsUsed
        /\ JsonParsed(Reply) =>
              outcome.val = Take(AcceptedElements(
                                     JsonParse(jsonMatch(Reply).inner).values),
                                 MaxTagsUsed)
        /\ ~jsonMatch(Reply).found =>
              outcome.val = Take(AcceptedLines(Reply), MaxTagsUsed)

C16_Witness ==
    /\ TagsReturned
    /\ JsonParsed(Reply)
    /\ Len(AcceptedElements(JsonParse(jsonMatch(Reply).inner).values))
           > MaxTagsUsed
    /\ MaxTagsUsed = 2
    /\ Len(outcome.val) = 2

\* C17: parseTagsResponse falls back to line splitting both when the reply
\* has no bracketed span and when the first bracketed span fails to parse as
\* a JSON array: the tags are those the line rule extracts from the reply.
C17_FallsBackToLineSplit ==
    TagsReturned /\ (~jsonMatch(Reply).found \/ JsonFailed(Reply))
        => outcome.val = LinePathTags(Reply, MaxTagsUsed)

\* C18: malformed model output never makes generateTags fail:
\* parseTagsResponse never throws, and a reply from which no tag can be
\* extracted (an empty text, an unparsable bracketed span) gives a
\* successful result with an empty tag list.
C18_MalformedReplyIsSoftFailure ==
    TagsMode /\ pc \in {"returned", "thrown"} /\ plan # <<>> /\ plan[1].ok
        => /\ ~fnResult.threw
           /\ pc = "returned"
           /\ outcome.kind = "ok"
           /\ Reply = <<>> \/ JsonFailed(Reply) => outcome.val = <<>>

C18_Witness ==
    /\ TagsReturned
    /\ JsonFailed(Reply)
    /\ outcome = Returned(<<>>)

\* C19: every tag generateTags returns is at most 10 characters long,
\* whichever path parsed the reply: an over-long tag is filtered out.
C19_NoOverLongTag ==
    TagsReturned =>
        \A k \in 1..Len(outcome.val) : Len(outcome.val[k]) <= MaxTagLength

\* C20: when geminiClient.generateText fails inside generateTags, a
\* classified error is rethrown unchanged and any other error is wrapped
\* into a classified error of kind UNKNOWN.
C20_UnclassifiedBecomesUnknown ==
    TagsMode /\ pc = "thrown" /\ plan # <<>> /\ ~plan[1].ok
        => IF plan[1].err.cls = "GeminiError"
           THEN outcome.err = plan[1].err
           ELSE outcome.err.cls = "GeminiError" /\ outcome.err.type = "UNKNOWN"

Truncated == mode = "truncateText" /\ pc = "returned"

\* C21: for every text and every budget maxTokens >= 1 the estimate of
\* truncateText(text, maxTokens) is at most maxTokens, and the text is
\* returned unchanged when its estimate is at most maxTokens.
C21_TruncatedTextFitsBudget ==
    Truncated =>
        /\ estimateTokens(fnResult) <= fnArg.maxTokens
        /\ estimateTokens(fnArg.text) <= fnArg.maxTokens => fnResult = fnArg.text

\* C22: withRetry invokes the operation at least once for every
\* maxRetries >= 0, and what it throws is an error raised by one of the
\* attempts.
C22_AtLeastOneAttempt ==
    mode = "withRetry" /\ Done
        => /\ opCalls >= 1
           /\ outcome.kind = "err"
                => \E i \in 1..opCalls : ~plan[i].ok /\ outcome.err = Raised(i)

C24_LateResultIsDiscarded ==
    [][InGenerateText /\ Done
          => outcome' = outcome /\ usageLog' = usageLog /\ pc' = pc]_vars

C24_Witness ==
    /\ InGenerateText /\ pc = "thrown"
    /\ TimedOut(lastError)
    /\ providerCalls # <<>>
    /\ pending = {}
    /\ Len(usageLog) = 1

\* C25: every generateText call eventually completes, with a response or a
\* classified error, after at most maxRetries provider calls, even if the
\* provider never responds.
C25_CallEventuallyCompletes ==
    /\ [](Len(providerCalls) <= DefaultMaxRetries)
    /\ [](InGenerateText /\ Done /\ outcome.kind = "err"
             => outcome.err.cls = "GeminiError")
    /\ (InGenerateText ~> Done)

C25_Witness ==
    /\ InGenerateText /\ pc = "thrown"
    /\ TimedOut(lastError)
    /\ pending = {1}
    /\ Len(providerCalls) = 1

\* C27: the inputTokens of a successful generateText response and of its
\* usage entry equal estimateTokens of the prompt that was sent to the
\* provider, also when the pre-flight stage truncated the prompt.
C27_InputTokensOfSentPrompt ==
    InGenerateText /\ pc = "returned"
        => /\ outcome.val.inputTokens = estimateTokens(sent.prompt)
           /\ usageLog[Len(usageLog)].inputTokens = estimateTokens(sent.prompt)

\* C28: with updateConfig calls interleaved with an in-flight generateText,
\* the model reported in the response and in the usage entry is the model
\* named in the provider call that produced the returned text.
C28_ReportedModelIsCalledModel ==
    InGenerateText /\ pc = "returned"
        => /\ outcome.val.model = providerCalls[Len(providerCalls)].model
           /\ usageLog[Len(usageLog)].model
                = providerCalls[Len(providerCalls)].model

\* C29: if the budget check of generateTags accepts the content, directly
\* or after its own truncation, generateText sends the prompt built from it
\* complete: it neither truncates the prompt again nor rejects it with
\* TOKEN_LIMIT_EXCEEDED.
C29_AcceptedContentIsSentComplete ==
    mode = "tagPrompt" /\ pc = "returned" /\ fnResult.accepted
        => /\ fnResult.client.ok
           /\ fnResult.client.req.prompt = fnResult.prompt

\* C26: for any interleaving of summary POST requests for the same note, with
\* regenerate true or false and with or without a stored summary, the table
\* holds at most one summary row of each note in every reachable state.
C26_AtMostOneSummaryPerNote ==
    mode = "summary"
        => \A id \in NoteIds :
               Cardinality({r \in summaries : r.noteId = id}) <= 1

\* Two requests for one note both found no summary; one inserted its row and
\* the unique index rejected the other's insert.
C26_Witness ==
    /\ mode = "summary"
    /\ \E p \in PostIds, q \in PostIds :
           /\ p # q
           /\ posts[p].noteId = posts[q].noteId
           /\ posts[p].pc = "done" /\ posts[p].response.status = 200
           /\ posts[p].existing = NoSummary /\ posts[p].result.text # ""
           /\ posts[q].pc = "done" /\ posts[q].response.status = 500
           /\ posts[q].existing = NoSummary /\ posts[q].result.text # ""
           /\ Cardinality({r \in summaries : r.noteId = posts[p].noteId}) = 1

\* C30: when generateTagsForNote returns success = false after it passed
\* authentication and input validation, the set of tags linked to the note
\* is the same as before the call.
C30_FailureLeavesTagsUnchanged ==
    (/\ mode = "noteTags"
     /\ tagsAction.pc = "returned"
     /\ tagsAction.validated
     /\ ~tagsAction.response.success)
        => LinkedTags(noteTags, tagsAction.noteId) = tagsAction.linkedBefore

====
